---- MODULE Spec2Model ----
(***************************************************************************)
(* giotto.mapper.visualization: create_static_network and                  *)
(* create_interactive_network.  Pipelines are objects on a heap, so that   *)
(* cloning and aliasing are distinguishable; every interactive network     *)
(* owns the closure state of one create_interactive_network call (pipe,    *)
(* widgets, valid, logs_box, out, handler, fig); the module-level logger   *)
(* is shared by all of them.                                               *)
(***************************************************************************)
EXTENDS Integers, Sequences, FiniteSets, TLC

\* ---------------------------------------------------------------- bounds
MaxNets == 2
MaxOps == 3
MaxLogs == 3
MaxEdges == 2
MaxNodes == 3
\* The data set of the session, and the assignment of update_figure after
\* which a fault inside it strikes.
DataSet == 1
UpdateFaultAfter == 4

\* Python's None inside a coordinate list (coordinates are naturals here).
None == -1

\* ------------------------------------------------------------ exceptions
NoExc == [cls |-> "none", msg |-> <<>>]

NodeColorStatisticError ==
    [cls |-> "ValueError",
     msg |-> <<"node_color_statistic must be a callable or ndarray.">>]

\* What MapperPipeline.fit_transform raises on parameters it rejects.
FitError == [cls |-> "ValueError", msg |-> <<"invalid Mapper parameter">>]

\* Exceptions a callee may raise on its own account: an error with a
\* two-line message, and the interrupt the notebook kernel delivers while
\* a callback runs.
TypeErrorExc == [cls |-> "TypeError", msg |-> <<"bad value", "expected a number">>]
KeyboardInterruptExc == [cls |-> "KeyboardInterrupt", msg |-> <<>>]
InjectedExcs == {TypeErrorExc, KeyboardInterruptExc}

\* issubclass(cls, Exception): KeyboardInterrupt derives from BaseException
\* only.
IsExceptionSubclass(cls) == cls \in {"ValueError", "TypeError"}

\* traceback.format_exc().splitlines()
format_exc_lines(exc) ==
    <<"Traceback (most recent call last):", "  File ...">>
      \o (IF exc.msg = <<>>
          THEN <<exc.cls>>
          ELSE <<exc.cls \o ": " \o exc.msg[1]>> \o Tail(exc.msg))

\* ------------------------------------------------------------ parameters
\* A parameter name 'step__name' is the tuple <<step, name>>; a value
\* carries its Python type.
IntV(i) == [t |-> "int", v |-> i]
FloatV(i) == [t |-> "float", v |-> i]
ObjV == [t |-> "object", v |-> 0]

P_n_intervals == <<"cover", "n_intervals">>
P_eps == <<"clusterer", "eps">>

ParamNames ==
    { <<"cover">>, P_n_intervals, <<"clusterer">>, P_eps,
      <<"filter_func", "n_components">> }

\* The values a user can give a parameter (in the pipeline or in a widget).
ParamDomain(p) ==
    CASE p = P_n_intervals -> {IntV(0), IntV(1), IntV(2)}
      [] p = P_eps -> {FloatV(1), FloatV(2)}
      [] p = <<"filter_func", "n_components">> -> {IntV(2)}
      [] OTHER -> {ObjV}


\* isinstance(value, (int, float, str))
IsScalar(value) == value.t \in {"int", "float", "str"}

\* get_widgets_per_param: the widget class, or None.
get_widgets_per_param(value) ==
    IF value.t = "float" THEN "FloatText"
    ELSE IF value.t = "int" THEN "IntText"
    ELSE IF value.t = "str" THEN "Text"
    ELSE "None"

\* dict(filter(lambda x: x[0].startswith(prefix), get_mapper_params()))
params_with_prefix(params, prefix) ==
    { p \in DOMAIN params : p[1] = prefix }

\* cover_params_widgets / cluster_params_widgets, as one dict of values.
widgets_for(params) ==
    [p \in { q \in params_with_prefix(params, "cover")
                     \cup params_with_prefix(params, "clusterer") :
               get_widgets_per_param(params[q]) # "None" } |-> params[p]]

\* -------------------------------------------------------------- pipeline
ObjIds == 0 .. (MaxNets + 1)
UserPipeline == 0
StaticClone == MaxNets + 1

NewPipeline(params) == [params |-> params, fitted |-> "unfitted"]

\* sklearn.base.clone used as `pipe = clone(pipeline)`: a new, unfitted
\* object with the same parameters; the result is the heap and the
\* reference bound to `pipe`.
clone_alias(h, src, fresh) == [heap |-> h, ref |-> src]

clone(h, src, fresh) ==
    [heap |-> [h EXCEPT ![fresh] = NewPipeline(h[src].params)], ref |-> fresh]

\* pipe.set_mapper_params(**{param: value})
set_mapper_params(h, ref, param, value) ==
    [h EXCEPT ![ref].params[param] = value]

\* ----------------------------------------------------------- Mapper graph
ParamsValid(params) == params[P_n_intervals].v >= 1 /\ params[P_eps].v >= 1

RECURSIVE PairsFrom(_, _, _)
PairsFrom(i, j, n) ==
    IF i >= n THEN <<>>
    ELSE IF j >= n THEN PairsFrom(i + 1, i + 2, n)
    ELSE <<(<<i, j>>)>> \o PairsFrom(i, j + 1, n)

\* The graph of pipe.fit_transform(data): more intervals give more nodes, a
\* larger eps joins nodes further apart.
MapperGraph(params, data) ==
    LET n == params[P_n_intervals].v + data
        far == params[P_eps].v
    IN [vcount |-> n,
        edges |-> SelectSeq(PairsFrom(0, 1, n), LAMBDA e : e[2] - e[1] <= far),
        node_elements |-> [k \in 0 .. (n - 1) |-> k + data]]

\* graph.layout(layout, dim=layout_dim): one position per vertex.
Layouts == {"kamada_kawai", "circle"}

GraphLayout(layout, vcount, dim) ==
    [k \in 0 .. (vcount - 1) |->
        LET xyz == IF layout = "circle" THEN <<2 * k + 1, vcount - k, k>>
                   ELSE <<k, (k * k) % 3, vcount - k>>
        IN IF dim = 3 THEN xyz ELSE SubSeq(xyz, 1, 2)]


\* ---------------------------------------------------------- plot traces
RECURSIVE SeqMax(_)
SeqMax(s) ==
    IF s = <<>> THEN 0
    ELSE LET m == SeqMax(Tail(s)) IN IF Head(s) > m THEN Head(s) ELSE m

\* rgb2hex(get_cmap('viridis')(x))
ColorHex(x) == <<"#", x>>

\* _get_node_colors: the array itself, or the statistic of the colour
\* variable over each node's elements.
get_node_colors(data, graph, ncs) ==
    [k \in 1 .. graph.vcount |->
        IF ncs = "ndarray" THEN 7 - k ELSE graph.node_elements[k - 1] * data]

\* _get_node_size
get_node_size(graph) ==
    [k \in 1 .. graph.vcount |-> graph.node_elements[k - 1]]

\* set_node_sizeref
set_node_sizeref(graph) == 2 * SeqMax(get_node_size(graph))

\* reduce(operator.iconcat,
\*        map(lambda x: [node_pos[x[0]][axis], node_pos[x[1]][axis], None],
\*            graph.get_edgelist()), [])
edge_coords_no_gap(edges, node_pos, axis) ==
    LET RECURSIVE go(_)
        go(es) ==
            IF es = <<>> THEN <<>>
            ELSE <<node_pos[Head(es)[1]][axis + 1],
                   node_pos[Head(es)[2]][axis + 1]>> \o go(Tail(es))
    IN go(edges)

edge_coords(edges, node_pos, axis) ==
    LET RECURSIVE go(_)
        go(es) ==
            IF es = <<>> THEN <<>>
            ELSE <<node_pos[Head(es)[1]][axis + 1],
                   node_pos[Head(es)[2]][axis + 1], None>> \o go(Tail(es))
    IN go(edges)

\* [node_pos[k][axis] for k in range(graph.vcount())]
node_coords(vcount, node_pos, axis) ==
    [k \in 1 .. vcount |-> node_pos[k - 1][axis + 1]]

NoFig ==
    [dim |-> 0, edge_x |-> <<>>, edge_y |-> <<>>, edge_z |-> <<>>,
     node_x |-> <<>>, node_y |-> <<>>, node_z |-> <<>>,
     marker_size |-> <<>>, marker_color |-> <<>>, marker_sizeref |-> 0]

\* The edge and node traces of the returned FigureWidget (data[0], data[1]).
build_figure(graph, node_pos, layout_dim, node_colors) ==
    [dim |-> layout_dim,
     edge_x |-> edge_coords(graph.edges, node_pos, 0),
     edge_y |-> edge_coords(graph.edges, node_pos, 1),
     edge_z |-> IF layout_dim = 3
                THEN edge_coords(graph.edges, node_pos, 2) ELSE <<>>,
     node_x |-> node_coords(graph.vcount, node_pos, 0),
     node_y |-> node_coords(graph.vcount, node_pos, 1),
     node_z |-> IF layout_dim = 3
                THEN node_coords(graph.vcount, node_pos, 2) ELSE <<>>,
     marker_size |-> get_node_size(graph),
     marker_color |-> [k \in 1 .. graph.vcount |-> ColorHex(node_colors[k])],
     marker_sizeref |-> set_node_sizeref(graph)]

\* ----------------------------------------------- create_static_network
\* A fault is an exception some callee raises at a point of the run.
NoFault == [at |-> "none", exc |-> NoExc, k |-> 0]
NoGraph == [vcount |-> 0, edges |-> <<>>, node_elements |-> <<>>]

\* graph = pipe.fit_transform(data)
fit_transform(h, ref, data, fault) ==
    IF fault.at = "fit"
    THEN [heap |-> [h EXCEPT ![ref].fitted = "partial"],
          raised |-> fault.exc, graph |-> NoGraph]
    ELSE IF ~ParamsValid(h[ref].params)
    THEN [heap |-> [h EXCEPT ![ref].fitted = "partial"],
          raised |-> FitError, graph |-> NoGraph]
    ELSE [heap |-> [h EXCEPT ![ref].fitted = "fitted"],
          raised |-> NoExc, graph |-> MapperGraph(h[ref].params, data)]

\* (not is_node_colors_ndarray) and (not callable(node_color_statistic))
node_color_statistic_rejected_lax(ncs) == FALSE

node_color_statistic_rejected(ncs) ==
    (~(ncs = "ndarray")) /\ (~(ncs = "callable"))

\* if clone_pipeline: pipe = clone(pipeline) else: pipe = pipeline
bind_pipe_inverted(h, pipeline, clone_pipeline, fresh) ==
    IF clone_pipeline THEN [heap |-> h, ref |-> pipeline]
    ELSE clone(h, pipeline, fresh)

bind_pipe(h, pipeline, clone_pipeline, fresh) ==
    IF clone_pipeline THEN clone(h, pipeline, fresh)
    ELSE [heap |-> h, ref |-> pipeline]

static_failed(ft, exc, where) ==
    [heap |-> ft.heap, raised |-> exc, stage |-> where, fig |-> NoFig,
     graph |-> NoGraph, node_pos |-> <<>>]

static_returned(ft, node_pos, args) ==
    [heap |-> ft.heap, raised |-> NoExc, stage |-> "return",
     fig |-> build_figure(ft.graph, node_pos, args.layout_dim,
                          get_node_colors(args.data, ft.graph, args.ncs)),
     graph |-> ft.graph, node_pos |-> node_pos]

\* create_static_network from the layout on, ft being what fit_transform
\* gave.
static_after_fit(ft, args, fault) ==
    IF ft.raised # NoExc THEN static_failed(ft, ft.raised, "fit")
    ELSE IF node_color_statistic_rejected(args.ncs)
    THEN static_failed(ft, NodeColorStatisticError, "check")
    ELSE IF fault.at = "plot" THEN static_failed(ft, fault.exc, "plot")
    ELSE static_returned(ft, GraphLayout(args.layout, ft.graph.vcount,
                                         args.layout_dim), args)

static_with_pipe(c, args, fault) ==
    static_after_fit(fit_transform(c.heap, c.ref, args.data, fault), args, fault)

\* The whole call, with args = [data, layout, layout_dim, ncs]: the heap it
\* leaves, the exception it raises (NoExc when it returns), the line it
\* ended at, and the figure it returns with the graph it drew.
create_static_network(h, pipeline, args, clone_pipeline, fresh, fault) ==
    static_with_pipe(bind_pipe(h, pipeline, clone_pipeline, fresh), args, fault)

\* --------------------------------------------- create_interactive_network
NetIds == 1 .. MaxNets

\* update_figure: the assignments old_figure.<field> = new_figure.<field>,
\* in the order of the code.
FigAssignments(dim) ==
    <<"edge_x", "edge_y", "node_x", "node_y">>
      \o (IF dim = 3 THEN <<"edge_z", "node_z">> ELSE <<>>)
      \o <<"marker_size", "marker_color", "marker_sizeref">>

assign_fields(old_figure, new_figure, fields) ==
    [f \in DOMAIN old_figure |->
        IF \E i \in 1 .. Len(fields) : fields[i] = f
        THEN new_figure[f] ELSE old_figure[f]]

update_figure_no_marker(old_figure, new_figure, dim) ==
    assign_fields(old_figure, new_figure,
                  SubSeq(FigAssignments(dim), 1, Len(FigAssignments(dim)) - 3))

update_figure(old_figure, new_figure, dim) ==
    assign_fields(old_figure, new_figure, FigAssignments(dim))

\* OutputWidgetHandler.emit: the newest record comes first.
emit(logs, rec) == <<rec>> \o logs

\* OutputWidgetHandler.clear_logs
clear_logs(logs) == <<>>

\* logger.info / logger.exception on the module logger: every handler
\* attached to logging.getLogger(__name__) gets the record.
logger_handle(nets, lg, rec) ==
    [m \in DOMAIN nets |->
        IF m \in lg THEN [nets[m] EXCEPT !.logs = emit(@, rec)] ELSE nets[m]]

\* `except Exception:` matches the raised exception.
except_matches_ValueError_only(exc) == exc.cls = "ValueError"

except_matches(exc) == IsExceptionSubclass(exc.cls)

\* exception_data[-1]
last_line(lines) == lines[Len(lines)]

\* for param, value in params.items():
\*     if isinstance(value, (int, float, str)):
\*         pipe.set_mapper_params(**{param: widgets[param].value})
\* over the scalar parameters ps.
RECURSIVE set_from_widgets(_, _, _, _)
set_from_widgets(h, ref, widgets, ps) ==
    IF ps = {} THEN h
    ELSE set_from_widgets(
             set_mapper_params(h, ref, CHOOSE q \in ps : TRUE,
                               widgets[CHOOSE q \in ps : TRUE]),
             ref, widgets, ps \ {CHOOSE q \in ps : TRUE})

ScalarParams(params, prefix) ==
    { p \in params_with_prefix(params, prefix) : IsScalar(params[p]) }

\* The try statement from `with fig.batch_update()` on: st is the new
\* figure's call, logged the networks after "Updating figure ..." was
\* logged.  A fault inside update_figure strikes after fault.k assignments,
\* which the batch still applies.
try_update(st, logged, n, fault) ==
    IF fault.at = "update"
    THEN [heap |-> st.heap,
          net |-> [logged EXCEPT
                     ![n].fig = assign_fields(@, st.fig,
                                  SubSeq(FigAssignments(logged[n].args.layout_dim),
                                         1, fault.k))],
          raised |-> fault.exc]
    ELSE [heap |-> st.heap,
          net |-> [logged EXCEPT
                     ![n].fig = update_figure(@, st.fig,
                                              logged[n].args.layout_dim),
                     ![n].valid = TRUE],
          raised |-> NoExc]

\* The try statement from logger.info on.
try_with_figure(st, lg, nets, n, fault) ==
    IF st.raised # NoExc
    THEN [heap |-> st.heap, net |-> nets, raised |-> st.raised]
    ELSE try_update(st,
                    logger_handle(nets, lg,
                        [level |-> "INFO", msg |-> "Updating figure ...",
                         src |-> n]),
                    n, fault)

\* The try statement from the clusterer loop on, h1 being the heap after
\* the cover loop.
try_with_cover_set(h1, lg, nets, n, fault) ==
    IF fault.at = "set_params"
    THEN [heap |-> h1, net |-> nets, raised |-> fault.exc]
    ELSE try_with_figure(
             create_static_network(
                 set_from_widgets(h1, nets[n].pipe, nets[n].widgets,
                                  ScalarParams(nets[n].params0, "clusterer")),
                 nets[n].pipe, nets[n].args, FALSE, nets[n].pipe, fault),
             lg, nets, n, fault)

\* The body of the try statement of on_parameter_change for network n,
\* whose widgets already hold the changed value: the heap and networks it
\* leaves, and the exception that ends it (NoExc when it runs through).
try_body(h, lg, nets, n, fault) ==
    try_with_cover_set(
        set_from_widgets(h, nets[n].pipe, nets[n].widgets,
                         ScalarParams(nets[n].params0, "cover")),
        lg, nets, n, fault)

\* The except clause: log the last line of the traceback, mark invalid.
except_body_keeps_valid(lg, nets, n, exc) ==
    logger_handle(nets, lg,
        [level |-> "ERROR", msg |-> last_line(format_exc_lines(exc)), src |-> n])

except_body(lg, nets, n, exc) ==
    [logger_handle(nets, lg,
        [level |-> "ERROR", msg |-> last_line(format_exc_lines(exc)), src |-> n])
     EXCEPT ![n].valid = FALSE]

\* try ... except Exception, t being what the try body gave.
handle_try(t, lg, n) ==
    IF t.raised = NoExc
    THEN [heap |-> t.heap, net |-> t.net, raised |-> NoExc,
          propagated |-> NoExc]
    ELSE IF except_matches(t.raised)
    THEN [heap |-> t.heap, net |-> except_body(lg, t.net, n, t.raised),
          raised |-> t.raised, propagated |-> NoExc]
    ELSE [heap |-> t.heap, net |-> t.net, raised |-> t.raised,
          propagated |-> t.raised]

\* on_parameter_change for network n: what it leaves, the exception its try
\* body raised, and the exception that leaves the callback (NoExc when none).
on_parameter_change(h, lg, nets, n, fault) ==
    handle_try(try_body(h, lg, [nets EXCEPT ![n].logs = clear_logs(@)], n, fault),
               lg, n)

\* ------------------------------------------------------------------ state
VARIABLES
    heap,     \* the pipeline objects: heap[UserPipeline] is the caller's
    logger,   \* handlers attached to logging.getLogger(__name__)
    net,      \* the closure state of each create_interactive_network call
    static,   \* what the caller's latest create_static_network call gave
    session,  \* the options the caller passes in this session
    ops,      \* calls and callbacks run so far
    last      \* the latest call or callback: its kind, network and outcome

vars == <<heap, logger, net, static, session, ops, last>>

DefaultParams ==
    [p \in ParamNames |->
        CASE p = P_n_intervals -> IntV(1)
          [] p = P_eps -> FloatV(1)
          [] p = <<"filter_func", "n_components">> -> IntV(2)
          [] OTHER -> ObjV]

\* The parameters of the pipeline the caller starts with.
UserParamSets ==
    { [DefaultParams EXCEPT ![P_n_intervals] = v] :
        v \in ParamDomain(P_n_intervals) }

NoArgs == [data |-> 0, layout |-> "kamada_kawai", layout_dim |-> 0, ncs |-> "none"]

\* A network slot no call has used yet.
NoNet ==
    [state |-> "none", pipe |-> UserPipeline, params0 |-> DefaultParams,
     args |-> NoArgs, widgets |-> <<>>, valid |-> TRUE, logs_box |-> FALSE,
     out |-> "empty", fig |-> NoFig, logs |-> <<>>,
     outcome |-> "none", prev_outcome |-> "none", settled |-> "none"]

NoStatic ==
    [called |-> FALSE, clone_pipeline |-> TRUE, ncs |-> "none",
     raised |-> NoExc, stage |-> "none", fig |-> NoFig, graph |-> NoGraph,
     node_pos |-> <<>>]

NoLast == [op |-> "none", net |-> 0, raised |-> NoExc, propagated |-> NoExc]

\* Faults inside create_static_network: in fit_transform (which also
\* rejects bad parameters by itself, with FitError) and in the plotting
\* calls after the node_color_statistic check.
StaticFaults ==
    {NoFault} \cup [at : {"fit", "plot"}, exc : InjectedExcs, k : {0}]

ChangeFaults ==
    StaticFaults
      \cup [at : {"set_params"}, exc : InjectedExcs, k : {0}]
      \cup [at : {"update"}, exc : InjectedExcs, k : {UpdateFaultAfter}]

NodeColorStatistics == {"callable", "ndarray", "other"}

Init ==
    /\ \E params \in UserParamSets :
          heap = [o \in ObjIds |->
                    IF o = UserPipeline THEN NewPipeline(params)
                    ELSE NewPipeline(DefaultParams)]
    /\ logger = {}
    /\ net = [n \in NetIds |-> NoNet]
    /\ static = NoStatic
    /\ session \in [layout_dim : {2, 3}, ncs : NodeColorStatistics]
    /\ ops = 0
    /\ last = NoLast

SessionArgs ==
    [data |-> DataSet, layout |-> "kamada_kawai",
     layout_dim |-> session.layout_dim, ncs |-> session.ncs]

\* The caller runs create_static_network on its pipeline.
StaticDone(clone_pipeline, r) ==
    /\ heap' = [r.heap EXCEPT ![StaticClone] = NewPipeline(DefaultParams)]
    /\ static' = [called |-> TRUE, clone_pipeline |-> clone_pipeline,
                  ncs |-> session.ncs, raised |-> r.raised, stage |-> r.stage,
                  fig |-> r.fig, graph |-> r.graph, node_pos |-> r.node_pos]
    /\ last' = [op |-> "static", net |-> 0, raised |-> r.raised,
                propagated |-> r.raised]

StaticCall(clone_pipeline, fault) ==
    /\ ops < MaxOps
    /\ StaticDone(clone_pipeline,
                  create_static_network(heap, UserPipeline, SessionArgs,
                                        clone_pipeline, StaticClone, fault))
    /\ ops' = ops + 1
    /\ UNCHANGED <<logger, net, session>>

\* create_interactive_network from the logger set-up on, c being the
\* clone bound to `pipe` and st the call that draws the initial figure: the
\* call raises what that call raises, and displays the network otherwise.
InteractiveDone(n, c, st) ==
    /\ heap' = st.heap
    /\ logger' = logger \cup {n}
    /\ net' = [net EXCEPT ![n] =
                 IF st.raised # NoExc
                 THEN [NoNet EXCEPT !.state = "failed", !.pipe = c.ref]
                 ELSE [NoNet EXCEPT
                         !.state = "live", !.pipe = c.ref,
                         !.params0 = c.heap[c.ref].params,
                         !.args = SessionArgs,
                         !.widgets = widgets_for(c.heap[c.ref].params),
                         !.valid = TRUE, !.logs_box = FALSE,
                         !.fig = st.fig]]
    /\ last' = [op |-> "interactive", net |-> n, raised |-> st.raised,
                propagated |-> st.raised]

InteractiveCloned(n, c, fault) ==
    InteractiveDone(n, c,
        create_static_network(c.heap, c.ref, SessionArgs, FALSE, c.ref, fault))

\* The caller runs create_interactive_network on its pipeline; the call
\* takes the next free slot n.
CreateInteractive(n, fault) ==
    /\ ops < MaxOps
    /\ net[n].state = "none"
    /\ \A m \in NetIds : m < n => net[m].state # "none"
    /\ InteractiveCloned(n, clone(heap, UserPipeline, n), fault)
    /\ ops' = ops + 1
    /\ UNCHANGED <<static, session>>

Outcome(r) ==
    IF r.raised = NoExc THEN "ok"
    ELSE IF r.propagated = NoExc THEN "caught" ELSE "propagated"

ChangeDone(n, r) ==
    /\ \A m \in NetIds : Len(r.net[m].logs) <= MaxLogs
    /\ heap' = r.heap
    /\ net' = [r.net EXCEPT
                 ![n].outcome = Outcome(r),
                 ![n].prev_outcome = net[n].outcome,
                 ![n].settled = IF Outcome(r) = "propagated" THEN @
                                ELSE Outcome(r)]
    /\ last' = [op |-> "change", net |-> n, raised |-> r.raised,
                propagated |-> r.propagated]

\* The user edits the widget of parameter p of network n; the widget
\* toolkit then calls on_parameter_change.
ParameterChange(n, p, value, fault) ==
    /\ ops < MaxOps
    /\ net[n].state = "live"
    /\ p \in DOMAIN net[n].widgets
    /\ value \in ParamDomain(p)
    /\ value # net[n].widgets[p]
    /\ ChangeDone(n, on_parameter_change(heap, logger,
                        [net EXCEPT ![n].widgets[p] = value], n, fault))
    /\ ops' = ops + 1
    /\ UNCHANGED <<logger, static, session>>

\* click_box: the user toggles the 'Show logs' checkbox of network n.
ClickBox(n) ==
    /\ ops < MaxOps
    /\ net[n].state = "live"
    /\ net' = [net EXCEPT
                 ![n].logs_box = ~@,
                 ![n].out = IF ~net[n].logs_box THEN "logs" ELSE "empty"]
    /\ last' = [op |-> "click", net |-> n, raised |-> NoExc,
                propagated |-> NoExc]
    /\ ops' = ops + 1
    /\ UNCHANGED <<heap, logger, static, session>>

Next ==
    \/ \E clone_pipeline \in BOOLEAN, fault \in StaticFaults :
          StaticCall(clone_pipeline, fault)
    \/ \E n \in NetIds, fault \in StaticFaults : CreateInteractive(n, fault)
    \/ \E n \in NetIds, p \in ParamNames :
          \E value \in ParamDomain(p),
             fault \in ChangeFaults :
             ParameterChange(n, p, value, fault)
    \/ \E n \in NetIds : ClickBox(n)

Spec == Init /\ [][Next]_vars


\* ------------------------------------------------- trace building alone
\* create_static_network's marshalling of a graph into traces, for any
\* edge list over MaxNodes vertices and either layout.
EdgeLists ==
    UNION { [1 .. k -> (0 .. (MaxNodes - 1)) \X (0 .. (MaxNodes - 1))] :
              k \in 0 .. MaxEdges }

InitFlatten ==
    /\ heap = [o \in ObjIds |-> NewPipeline(DefaultParams)]
    /\ logger = {}
    /\ net = [n \in NetIds |-> NoNet]
    /\ static = NoStatic
    /\ session \in [layout_dim : {2, 3}, ncs : {"callable"}]
    /\ ops = 0
    /\ last = NoLast

DrawTraces(edges, layout) ==
    LET graph == [vcount |-> MaxNodes, edges |-> edges,
                  node_elements |-> [k \in 0 .. (MaxNodes - 1) |-> k + 1]]
        node_pos == GraphLayout(layout, MaxNodes, session.layout_dim)
    IN /\ ~static.called
       /\ static' = [called |-> TRUE, clone_pipeline |-> TRUE,
                     ncs |-> session.ncs, raised |-> NoExc,
                     stage |-> "return",
                     fig |-> build_figure(graph, node_pos, session.layout_dim,
                               get_node_colors(DataSet, graph, session.ncs)),
                     graph |-> graph, node_pos |-> node_pos]
       /\ last' = [op |-> "static", net |-> 0, raised |-> NoExc,
                   propagated |-> NoExc]
       /\ UNCHANGED <<heap, logger, net, session, ops>>

NextFlatten == \E edges \in EdgeLists, layout \in Layouts : DrawTraces(edges, layout)

SpecFlatten == InitFlatten /\ [][NextFlatten]_vars

\* ================================================================ claims
TracebackLastLine(exc) ==
    format_exc_lines(exc)[Len(format_exc_lines(exc))]

CaughtAndReported(n, exc) ==
    /\ last.propagated = NoExc
    /\ net[n].valid = FALSE
    /\ net[n].logs # <<>>
    /\ Head(net[n].logs) =
         [level |-> "ERROR", msg |-> TracebackLastLine(exc), src |-> n]

C2_ValidIffLastChangeOk ==
    \A n \in NetIds :
        net[n].state = "live"
            => (net[n].valid <=> net[n].outcome \in {"none", "ok"})

\* C2 amended: valid starts True and is True exactly when the most recent
\* parameter change that ran to its end or raised an Exception instance ran
\* without an exception; a change ended by an exception that is not an
\* Exception instance leaves valid as it was.
C2_ValidIffLastSettledChangeOk ==
    \A n \in NetIds :
        net[n].state = "live"
            => (net[n].valid <=> net[n].settled \in {"none", "ok"})

\* A successful change right after a failed one: valid is True again.
C2_Witness ==
    \E n \in NetIds :
        /\ net[n].state = "live"
        /\ net[n].prev_outcome = "caught"
        /\ net[n].outcome = "ok"
        /\ net[n].valid

\* C3: a create_static_network call with clone_pipeline=True leaves the
\* caller's pipeline as it was (parameters and fitted state); with
\* clone_pipeline=False the caller's pipeline itself goes through
\* fit_transform, its parameters unchanged.
C3_CloneLeavesPipeline ==
    [][last'.op = "static"
         => IF static'.clone_pipeline
            THEN heap'[UserPipeline] = heap[UserPipeline]
            ELSE /\ heap'[UserPipeline].params = heap[UserPipeline].params
                 /\ heap'[UserPipeline].fitted # "unfitted"
                 /\ static'.stage # "fit"
                      => heap'[UserPipeline].fitted = "fitted"]_vars

\* A cloning call has returned a figure and the caller's pipeline is
\* still unfitted.
C3_Witness ==
    /\ last.op = "static"
    /\ static.clone_pipeline
    /\ static.stage = "return"
    /\ heap[UserPipeline].fitted = "unfitted"

\* C4: create_interactive_network and every parameter change it handles,
\* successful or failing, leave the caller's pipeline as it was; a displayed
\* network works on a pipeline object of its own.
C4_InteractiveLeavesPipeline ==
    [][last'.op \in {"interactive", "change", "click"}
         => /\ heap'[UserPipeline] = heap[UserPipeline]
            /\ \A n \in NetIds :
                 net'[n].state = "live" => net'[n].pipe # UserPipeline]_vars

\* A change has re-parameterised the network's pipeline, which now differs
\* from the caller's.
C4_Witness ==
    /\ last.op = "change"
    /\ heap[net[last.net].pipe].params # heap[UserPipeline].params
    /\ heap[net[last.net].pipe].fitted = "fitted"
    /\ heap[UserPipeline].fitted = "unfitted"

NodeColorStatisticAccepted == static.ncs \in {"ndarray", "callable"}

FlattenedAlong(coords, edges, node_pos, axis) ==
    /\ Len(coords) = 3 * Len(edges)
    /\ \A i \in 1 .. Len(edges) :
         /\ coords[3 * i - 2] = node_pos[edges[i][1]][axis + 1]
         /\ coords[3 * i - 1] = node_pos[edges[i][2]][axis + 1]
         /\ coords[3 * i] = None
    /\ edges = <<>> => coords = <<>>

\* C6: each of edge_x, edge_y (and edge_z when layout_dim is 3) has length
\* 3*m and holds, for the i-th edge, the source node's coordinate, the
\* target node's coordinate and None, in edge-list order; with no edges the
\* lists are empty.
C6_EdgeFlattening ==
    static.stage = "return"
        => /\ FlattenedAlong(static.fig.edge_x, static.graph.edges,
                             static.node_pos, 0)
           /\ FlattenedAlong(static.fig.edge_y, static.graph.edges,
                             static.node_pos, 1)
           /\ static.fig.dim = 3
                => FlattenedAlong(static.fig.edge_z, static.graph.edges,
                                  static.node_pos, 2)

\* A 3D figure of a graph with two different edges, the second listed
\* before a smaller one.
C6_Witness ==
    /\ static.stage = "return"
    /\ static.fig.dim = 3
    /\ Len(static.graph.edges) = 2
    /\ static.graph.edges[1] = <<2, 1>>
    /\ static.graph.edges[2] = <<0, 2>>

CopiedFields(dim) ==
    {"edge_x", "edge_y", "node_x", "node_y", "marker_size", "marker_color",
     "marker_sizeref"} \cup (IF dim = 3 THEN {"edge_z", "node_z"} ELSE {})

FigureOf(fig, dim, st) ==
    /\ st.raised = NoExc
    /\ \A f \in CopiedFields(dim) : fig[f] = st.fig[f]

\* C7: after a parameter change handled without an exception, every scalar
\* cover and clusterer parameter of the network's pipeline equals its
\* widget's value, and the displayed traces' coordinates and marker size,
\* colour and sizeref are those of the figure create_static_network computes
\* from that pipeline with the same data and options.
C7_FigureFollowsWidgets ==
    \A n \in NetIds :
        (net[n].state = "live" /\ net[n].outcome = "ok")
            => /\ \A p \in ParamNames :
                    (/\ p[1] \in {"cover", "clusterer"}
                     /\ IsScalar(heap[net[n].pipe].params[p]))
                        => /\ p \in DOMAIN net[n].widgets
                           /\ heap[net[n].pipe].params[p] = net[n].widgets[p]
               /\ FigureOf(net[n].fig, net[n].args.layout_dim,
                     create_static_network(heap, net[n].pipe, net[n].args,
                                           FALSE, net[n].pipe, NoFault))

\* A 3D network whose n_intervals widget was changed successfully, giving
\* a figure with another number of nodes.
C7_Witness ==
    \E n \in NetIds :
        /\ net[n].state = "live"
        /\ net[n].outcome = "ok"
        /\ net[n].args.layout_dim = 3
        /\ net[n].widgets[P_n_intervals] # net[n].params0[P_n_intervals]
        /\ Len(net[n].fig.node_z) = net[n].widgets[P_n_intervals].v + DataSet

\* C8: the records a network's handler stores were all produced by that
\* network's own parameter changes, and by the most recent one: at most the
\* "Updating figure ..." record and one error record.
C8_LogIsolation ==
    \A n \in NetIds :
        /\ \A i \in 1 .. Len(net[n].logs) : net[n].logs[i].src = n
        /\ Len(net[n].logs) <= 2

====
